---- MODULE Spec2Model ----
(***************************************************************************)
(* Record stores of the abkh123/fastapi-learning scaffolds.                *)
(*                                                                         *)
(* The repository holds four separately deployed applications:             *)
(*   "hello_world"   hello-world/main.py      items in a dict              *)
(*   "_main"         fastapi-hello-world/_main.py  items and tasks in      *)
(*                   dicts, plus /search                                   *)
(*   "task_api"      fastapi-hello-world/main.py   TaskDB rows (SQLModel)  *)
(*   "crud_postgres" crud-postgres/app        Item rows (SQLAlchemy)       *)
(* A behaviour of the model is the life of one of them: Init picks the     *)
(* application, and only that application's handlers are enabled.          *)
(*                                                                         *)
(* Python values: a str that the code searches in is a sequence of         *)
(* characters; Optional[T] is <<>> for None and <<v>> for a value v.       *)
(***************************************************************************)
EXTENDS Integers, Sequences, FiniteSets, TLC

VARIABLES
    app,            \* which application this behaviour runs
    items_db,       \* dict item_id -> item, in insertion order
    next_id,        \* global next_id
    tasks_db,       \* dict task_id -> task, in insertion order
    next_task_id,   \* global next_task_id
    table,          \* rows of the ORM table (task or items), in heap order
    id_seq,         \* last value handed out by the table's id sequence
    now,            \* the clock read by datetime.now / datetime.utcnow
    resp,           \* the response to the last request
    issued,         \* history: ids returned by the creates on the items / rows
    issued_tasks,   \* history: ids returned by create_task of _main.py
    deleted,        \* history: ids whose delete succeeded
    threads,        \* threadpool workers inside create_item / create_task
    session,        \* the request's session inside get_db
    routed          \* the last request the router dispatched

\* the state that only the step-by-step specifications move
aux == <<threads, session, routed>>

vars == <<app, items_db, next_id, tasks_db, next_task_id, table, id_seq, now,
          resp, issued, issued_tasks, deleted, threads, session, routed>>

----------------------------------------------------------------------------
(* Bounds of the model *)

MaxId == 2          \* creates per in-memory items store
MaxTaskId == 2      \* creates per in-memory tasks store
MaxRowId == 2       \* inserts per ORM table
MaxTime == 1        \* clock ticks

----------------------------------------------------------------------------
(* Python values *)

None == <<>>
Some(v) == <<v>>
IsNone(o) == o = <<>>
Val(o) == o[1]

Range(f) == {f[x] : x \in DOMAIN f}

\* str.lower() on one character
LowerChar(c) ==
    CASE c = "A" -> "a"
      [] c = "B" -> "b"
      [] OTHER -> c

\* str.lower()
Lower(s) == [i \in 1..Len(s) |-> LowerChar(s[i])]

\* the `in` operator on two str: needle occurs in hay as a substring
StrIn(needle, hay) ==
    \E i \in 0..(Len(hay) - Len(needle)) :
        \A j \in 1..Len(needle) : hay[i + j] = needle[j]

\* dict: position of a key in an insertion-ordered dict (0 when absent)
KeyIn(db, key) == \E i \in 1..Len(db) : db[i].key = key
KeyPos(db, key) == CHOOSE i \in 1..Len(db) : db[i].key = key
DictGet(db, key) == db[KeyPos(db, key)].value
\* db[key] = value: an existing key keeps its position, a new one goes last
DictSet(db, key, value) ==
    IF KeyIn(db, key)
    THEN [db EXCEPT ![KeyPos(db, key)] = [key |-> key, value |-> value]]
    ELSE Append(db, [key |-> key, value |-> value])
\* del db[key]
DictDel(db, key) == SelectSeq(db, LAMBDA e : e.key # key)
DictKeys(db) == {db[i].key : i \in 1..Len(db)}

\* {"id": id, **value}: a key of value wins over the literal one
WithId(id, value) == value @@ ("id" :> id)

----------------------------------------------------------------------------
(* Request values *)

Queries == {<<"a">>, <<"B">>}
MinPrices == {None, Some(2)}
MaxPrices == {None, Some(1)}
StatusFilters == {None, Some(""), Some("done")}

\* JSON bodies of POST /items and PUT /items/{item_id}: name and price are
\* required, description may be left out, be null or a string, and a client
\* may send an id key as well
ItemBodies ==
    {[name |-> <<"A">>, price |-> 1, description |-> Some(<<"a">>)],
     [name |-> <<"b">>, price |-> 2, description |-> Some(<<"a">>)],
     [name |-> <<"A">>, price |-> 2],
     [name |-> <<"b">>, price |-> 1, description |-> None, id |-> 1]}

\* JSON bodies of POST /tasks of _main.py
TaskBodies ==
    {[title |-> <<"A">>],
     [title |-> <<"a", "b">>, status |-> "done"]}

\* class Item(BaseModel) followed by model_dump(): unknown keys are dropped,
\* an absent description takes its default None
Item(body) ==
    [name |-> body.name,
     description |-> IF "description" \in DOMAIN body THEN body.description ELSE None,
     price |-> body.price]

\* class Task(BaseModel) followed by model_dump()
Task(body) ==
    [title |-> body.title,
     description |-> IF "description" \in DOMAIN body THEN body.description ELSE None,
     status |-> IF "status" \in DOMAIN body THEN body.status ELSE "pending",
     priority |-> IF "priority" \in DOMAIN body THEN body.priority ELSE 3]

HTTPException(code, db) == [status |-> code, body |-> <<>>, db |-> db]

----------------------------------------------------------------------------
(* hello-world/main.py and _main.py: the in-memory handlers *)

list_items(db) ==
    [status |-> 200,
     body |-> [i \in 1..Len(db) |-> WithId(db[i].key, db[i].value)],
     db |-> db]

get_item(db, item_id) ==
    IF ~KeyIn(db, item_id)
    THEN HTTPException(404, db)
    ELSE [status |-> 200, body |-> <<WithId(item_id, DictGet(db, item_id))>>, db |-> db]

\* mutant: the id is taken from the number of stored items, not the counter
create_item_recycle(db, nid, body) ==
    LET item_id == Len(db) + 1
        db2 == DictSet(db, item_id, Item(body))
    IN [status |-> 201, body |-> <<WithId(item_id, DictGet(db2, item_id))>>,
        db |-> db2, next_id |-> nid + 1]

create_item(db, nid, body) ==
    LET item_id == nid
        db2 == DictSet(db, item_id, Item(body))
    IN [status |-> 201, body |-> <<WithId(item_id, DictGet(db2, item_id))>>,
        db |-> db2, next_id |-> nid + 1]

\* mutant: only the keys the request carries are written
update_item_merge(db, item_id, body) ==
    IF ~KeyIn(db, item_id)
    THEN HTTPException(404, db)
    ELSE LET old == DictGet(db, item_id)
             merged == [k \in DOMAIN old |-> IF k \in DOMAIN body THEN body[k] ELSE old[k]]
             db2 == DictSet(db, item_id, merged)
         IN [status |-> 200, body |-> <<WithId(item_id, DictGet(db2, item_id))>>,
             db |-> db2]

update_item(db, item_id, body) ==
    IF ~KeyIn(db, item_id)
    THEN HTTPException(404, db)
    ELSE LET db2 == DictSet(db, item_id, Item(body))
         IN [status |-> 200, body |-> <<WithId(item_id, DictGet(db2, item_id))>>,
             db |-> db2]

\* mutant: answers 204 without removing the entry
delete_item_keep(db, item_id) ==
    IF ~KeyIn(db, item_id)
    THEN HTTPException(404, db)
    ELSE [status |-> 204, body |-> <<>>, db |-> db]

\* hello-world/main.py: 204 and no body
delete_item(db, item_id) ==
    IF ~KeyIn(db, item_id)
    THEN HTTPException(404, db)
    ELSE [status |-> 204, body |-> <<>>, db |-> DictDel(db, item_id)]

\* mutant: items_db.pop(item_id, None) without the membership test
main_delete_item_pop(db, item_id) ==
    [status |-> 200,
     body |-> <<[message |-> "Item deleted successfully", id |-> item_id]>>,
     db |-> DictDel(db, item_id)]

\* _main.py: 200 and a message
main_delete_item(db, item_id) ==
    IF ~KeyIn(db, item_id)
    THEN HTTPException(404, db)
    ELSE [status |-> 200,
          body |-> <<[message |-> "Item deleted successfully", id |-> item_id]>>,
          db |-> DictDel(db, item_id)]

list_tasks(db) ==
    [status |-> 200,
     body |-> [i \in 1..Len(db) |-> WithId(db[i].key, db[i].value)],
     db |-> db]

get_task(db, task_id) ==
    IF ~KeyIn(db, task_id)
    THEN HTTPException(404, db)
    ELSE [status |-> 200, body |-> <<WithId(task_id, DictGet(db, task_id))>>, db |-> db]

create_task(db, nid, body) ==
    LET task_id == nid
        db2 == DictSet(db, task_id, Task(body))
    IN [status |-> 201, body |-> <<WithId(task_id, DictGet(db2, task_id))>>,
        db |-> db2, next_id |-> nid + 1]

----------------------------------------------------------------------------
(* _main.py: GET /search *)

\* dict.get(key, default)
PyGet(d, key, default) == IF key \in DOMAIN d THEN d[key] ELSE default

\* bool(status) of an Optional[str]
Truthy(o) == ~IsNone(o) /\ Val(o) # ""

\* mutant: the price bounds are exclusive
RECURSIVE search_items_loop_excl(_, _, _, _, _)
search_items_loop_excl(db, n, query, min_price, max_price) ==
    IF n = 0
    THEN [raised |-> FALSE, results |-> <<>>]
    ELSE
      LET prev == search_items_loop_excl(db, n - 1, query, min_price, max_price)
          item_id == db[n].key
          item_data == db[n].value
          name == PyGet(item_data, "name", <<>>)
          desc == PyGet(item_data, "description", Some(<<>>))
          in_name == StrIn(Lower(query), Lower(name))
          price == PyGet(item_data, "price", 0)
      IN IF prev.raised THEN prev
         ELSE IF ~in_name /\ IsNone(desc)
         THEN [raised |-> TRUE, results |-> prev.results]
         ELSE IF in_name \/ StrIn(Lower(query), Lower(Val(desc)))
         THEN IF ~IsNone(min_price) /\ price <= Val(min_price) THEN prev
              ELSE IF ~IsNone(max_price) /\ price >= Val(max_price) THEN prev
              ELSE [raised |-> FALSE,
                    results |-> Append(prev.results,
                        [id |-> item_id, title |-> name, item_type |-> "item"])]
         ELSE prev

\* the loop over items_db.items(), after its first n iterations;
\* raised: the iteration evaluated desc.lower() on None (AttributeError)
RECURSIVE search_items_loop(_, _, _, _, _)
search_items_loop(db, n, query, min_price, max_price) ==
    IF n = 0
    THEN [raised |-> FALSE, results |-> <<>>]
    ELSE
      LET prev == search_items_loop(db, n - 1, query, min_price, max_price)
          item_id == db[n].key
          item_data == db[n].value
          name == PyGet(item_data, "name", <<>>)
          desc == PyGet(item_data, "description", Some(<<>>))
          in_name == StrIn(Lower(query), Lower(name))
          price == PyGet(item_data, "price", 0)
      IN IF prev.raised THEN prev
         ELSE IF ~in_name /\ IsNone(desc)
         THEN [raised |-> TRUE, results |-> prev.results]
         ELSE IF in_name \/ StrIn(Lower(query), Lower(Val(desc)))
         THEN IF ~IsNone(min_price) /\ price < Val(min_price) THEN prev
              ELSE IF ~IsNone(max_price) /\ price > Val(max_price) THEN prev
              ELSE [raised |-> FALSE,
                    results |-> Append(prev.results,
                        [id |-> item_id, title |-> name, item_type |-> "item"])]
         ELSE prev

\* the loop over tasks_db.items(), after its first n iterations
RECURSIVE search_tasks_loop(_, _, _, _)
search_tasks_loop(db, n, query, status) ==
    IF n = 0
    THEN <<>>
    ELSE
      LET prev == search_tasks_loop(db, n - 1, query, status)
          task_id == db[n].key
          task_data == db[n].value
          title == PyGet(task_data, "title", <<>>)
      IN IF StrIn(Lower(query), Lower(title))
         THEN IF Truthy(status) /\ PyGet(task_data, "status", "") # Val(status)
              THEN prev
              ELSE Append(prev, [id |-> task_id, title |-> title, item_type |-> "task"])
         ELSE prev

search_items_and_tasks(idb, tdb, query, min_price, max_price, status) ==
    LET items == search_items_loop(idb, Len(idb), query, min_price, max_price)
    IN IF items.raised
       THEN [status |-> 500, body |-> <<>>]
       ELSE [status |-> 200,
             body |-> items.results \o search_tasks_loop(tdb, Len(tdb), query, status)]

----------------------------------------------------------------------------
(* The ORM tables.  A row is a record of Optional values, one per mapped    *)
(* attribute; the table is the sequence of its rows in heap order, the     *)
(* order in which a SELECT without ORDER BY returns them.  The database is *)
(* the configured one, PostgreSQL (database.py: postgresql+asyncpg, pool   *)
(* settings "for PostgreSQL"): the primary key is fed by a sequence, which *)
(* never hands out a value twice, and an UPDATE writes a new row version.  *)

\* columns declared without Optional / with Mapped[<non-optional>]: NOT NULL
TaskNotNull == {"id", "title", "status", "created_at"}
ItemNotNull == {"id", "name", "price", "created_at", "updated_at"}

RowIn(tbl, id) == \E i \in 1..Len(tbl) : tbl[i].id = Some(id)
RowPos(tbl, id) == CHOOSE i \in 1..Len(tbl) : tbl[i].id = Some(id)

\* for key, value in update_data.items(): setattr(row, key, value)
Setattrs(row, update_data) ==
    [f \in DOMAIN row \cup DOMAIN update_data |->
        IF f \in DOMAIN update_data THEN update_data[f] ELSE row[f]]

\* INSERT: the new row goes to the end of the heap
HeapInsert(tbl, row) == Append(tbl, row)

\* UPDATE of the row at pos: PostgreSQL writes a new row version, which a
\* sequential scan may return at the old place or after the other rows
HeapUpdate(tbl, pos, row, moved) ==
    IF moved
    THEN Append(SelectSeq(tbl, LAMBDA r : r.id # tbl[pos].id), row)
    ELSE [tbl EXCEPT ![pos] = row]

HeapDelete(tbl, id) == SelectSeq(tbl, LAMBDA r : r.id # Some(id))

----------------------------------------------------------------------------
(* fastapi-hello-world/main.py with models.py: the task table *)

\* JSON bodies of POST /tasks
TaskCreateBodies ==
    {[title |-> Some("A")],
     [title |-> Some("B"), description |-> Some("d"), status |-> Some("done")]}

\* JSON bodies of PUT /tasks/{task_id}: every key optional, null accepted,
\* unknown keys allowed
TaskUpdateBodies ==
    {<<>>,
     [status |-> Some("done")],
     [title |-> None],
     [description |-> None, id |-> Some(2), created_at |-> Some(0)]}

\* TaskDB.model_validate(task) for a TaskCreate: id stays None until the
\* INSERT, created_at comes from default_factory
TaskDB(body, t) ==
    [id |-> None,
     title |-> body.title,
     description |-> IF "description" \in DOMAIN body THEN body.description ELSE None,
     status |-> IF "status" \in DOMAIN body THEN body.status ELSE Some("pending"),
     created_at |-> Some(t)]

\* mutant: unknown keys of the body are kept (extra = "allow")
TaskUpdate_extra(body) == body

\* TaskUpdate(...).model_dump(exclude_unset=True): the declared fields the
\* body carries
TaskUpdate(body) ==
    [k \in DOMAIN body \cap {"title", "description", "status"} |-> body[k]]

db_create_task(tbl, seq, body, t) ==
    LET db_task == [TaskDB(body, t) EXCEPT !.id = Some(seq + 1)]
    IN [status |-> 201, body |-> <<db_task>>, db |-> HeapInsert(tbl, db_task),
        seq |-> seq + 1]

db_list_tasks(tbl) == [status |-> 200, body |-> tbl, db |-> tbl]

db_get_task(tbl, task_id) ==
    IF ~RowIn(tbl, task_id)
    THEN HTTPException(404, tbl)
    ELSE [status |-> 200, body |-> <<tbl[RowPos(tbl, task_id)]>>, db |-> tbl]

db_update_task(tbl, task_id, body, moved) ==
    IF ~RowIn(tbl, task_id)
    THEN HTTPException(404, tbl)
    ELSE
      LET pos == RowPos(tbl, task_id)
          task == Setattrs(tbl[pos], TaskUpdate(body))
      IN IF task = tbl[pos]
         THEN \* nothing is dirty: commit emits no UPDATE
              [status |-> 200, body |-> <<task>>, db |-> tbl]
         ELSE IF \E c \in TaskNotNull : IsNone(task[c])
         THEN \* commit raises IntegrityError, the session rolls back
              [status |-> 500, body |-> <<>>, db |-> tbl]
         ELSE [status |-> 200, body |-> <<task>>,
               db |-> HeapUpdate(tbl, pos, task, moved)]

db_delete_task(tbl, task_id) ==
    IF ~RowIn(tbl, task_id)
    THEN HTTPException(404, tbl)
    ELSE [status |-> 200,
          body |-> <<[message |-> "Task deleted successfully", task_id |-> task_id]>>,
          db |-> HeapDelete(tbl, task_id)]

----------------------------------------------------------------------------
(* crud-postgres/app: routers/items.py, schemas.py, models.py,             *)
(* dependencies.py: the items table                                        *)

\* JSON bodies of POST /items/
ItemCreateBodies ==
    {[name |-> Some("A"), price |-> Some(10)],
     [name |-> Some("B"), description |-> Some("d"), price |-> Some(20)]}

\* JSON bodies of PUT /items/{item_id}
ItemUpdateBodies ==
    {<<>>,
     [price |-> Some(20), id |-> Some(2), created_at |-> Some(0)],
     [name |-> None]}

\* Item(**item.model_dump()) for an ItemCreate, then the INSERT defaults
ItemRow(body, t) ==
    [id |-> None,
     name |-> body.name,
     description |-> IF "description" \in DOMAIN body THEN body.description ELSE None,
     price |-> body.price,
     created_at |-> Some(t),
     updated_at |-> Some(t)]

\* ItemUpdate(...).model_dump(exclude_unset=True)
ItemUpdate(body) ==
    [k \in DOMAIN body \cap {"name", "description", "price"} |-> body[k]]

get_item_or_404(tbl, item_id) ==
    IF ~RowIn(tbl, item_id)
    THEN HTTPException(404, tbl)
    ELSE [status |-> 200, body |-> <<tbl[RowPos(tbl, item_id)]>>, db |-> tbl]

router_create_item(tbl, seq, body, t) ==
    LET db_item == [ItemRow(body, t) EXCEPT !.id = Some(seq + 1)]
    IN [status |-> 201, body |-> <<db_item>>, db |-> HeapInsert(tbl, db_item),
        seq |-> seq + 1]

\* select(Item).offset(skip).limit(limit)
router_list_items(tbl, skip, limit) ==
    LET last == IF skip + limit < Len(tbl) THEN skip + limit ELSE Len(tbl)
    IN [status |-> 200, body |-> SubSeq(tbl, skip + 1, last), db |-> tbl]

count_items(tbl) == [status |-> 200, body |-> <<[count |-> Len(tbl)]>>, db |-> tbl]

router_get_item(tbl, item_id) == get_item_or_404(tbl, item_id)

router_update_item(tbl, item_id, body, moved, t) ==
    IF ~RowIn(tbl, item_id)
    THEN HTTPException(404, tbl)
    ELSE
      LET pos == RowPos(tbl, item_id)
          db_item == Setattrs(tbl[pos], ItemUpdate(body))
      IN IF db_item = tbl[pos]
         THEN \* nothing is dirty: flush emits no UPDATE
              [status |-> 200, body |-> <<db_item>>, db |-> tbl]
         ELSE IF \E c \in ItemNotNull : IsNone(db_item[c])
         THEN \* flush raises IntegrityError, get_db rolls back
              [status |-> 500, body |-> <<>>, db |-> tbl]
         ELSE \* the UPDATE fires onupdate=datetime.utcnow
              LET written == [db_item EXCEPT !.updated_at = Some(t)]
              IN [status |-> 200, body |-> <<written>>,
                  db |-> HeapUpdate(tbl, pos, written, moved)]

\* mutant: the DELETE loses its WHERE clause
router_delete_item_all(tbl, item_id) ==
    LET item == get_item_or_404(tbl, item_id)
    IN IF item.status = 404
       THEN item
       ELSE [status |-> 204, body |-> <<>>, db |-> <<>>]

router_delete_item(tbl, item_id) ==
    LET item == get_item_or_404(tbl, item_id)
    IN IF item.status = 404
       THEN item
       ELSE [status |-> 204, body |-> <<>>, db |-> HeapDelete(tbl, item_id)]

----------------------------------------------------------------------------
(* The applications and their requests *)

InMemory == {"hello_world", "_main"}
Apps == InMemory \cup {"task_api", "crud_postgres"}

ItemIds == 1..(MaxId + 1)
TaskIds == 1..(MaxTaskId + 1)
RowIds == 1..(MaxRowId + 1)
Skips == 0..(MaxRowId + 1)
Limits == {1, 2, 10}

\* what the client sent and got: the handler, its path id (0 when it has
\* none), the JSON body of a POST or PUT (<<>> otherwise), status and body
Response(op, id, req, r) ==
    [op |-> op, id |-> id, req |-> req, status |-> r.status, body |-> r.body]

Init ==
    /\ app \in Apps
    /\ items_db = <<>>
    /\ next_id = 1
    /\ tasks_db = <<>>
    /\ next_task_id = 1
    /\ table = <<>>
    /\ id_seq = 0
    /\ now = 0
    /\ resp = [op |-> "none", id |-> 0, req |-> <<>>, status |-> 0, body |-> <<>>]
    /\ issued = <<>>
    /\ issued_tasks = <<>>
    /\ deleted = {}
    /\ threads = <<>>
    /\ session = <<>>
    /\ routed = <<>>

ListItems ==
    /\ UNCHANGED aux
    /\ app \in InMemory
    /\ resp' = Response("list_items", 0, <<>>, list_items(items_db))
    /\ UNCHANGED <<app, items_db, next_id, tasks_db, next_task_id, table, id_seq,
                   now, issued, issued_tasks, deleted>>

GetItem ==
    /\ UNCHANGED aux
    /\ app \in InMemory
    /\ \E item_id \in ItemIds :
         resp' = Response("get_item", item_id, <<>>, get_item(items_db, item_id))
    /\ UNCHANGED <<app, items_db, next_id, tasks_db, next_task_id, table, id_seq,
                   now, issued, issued_tasks, deleted>>

CreateItem ==
    /\ UNCHANGED aux
    /\ app \in InMemory
    /\ next_id <= MaxId
    /\ \E body \in ItemBodies :
         LET r == create_item(items_db, next_id, body)
         IN /\ items_db' = r.db
            /\ next_id' = r.next_id
            /\ resp' = Response("create_item", 0, body, r)
            /\ issued' = Append(issued, r.body[1].id)
    /\ UNCHANGED <<app, tasks_db, next_task_id, table, id_seq, now, issued_tasks,
                   deleted>>

UpdateItem ==
    /\ UNCHANGED aux
    /\ app \in InMemory
    /\ \E item_id \in ItemIds, body \in ItemBodies :
         LET r == update_item(items_db, item_id, body)
         IN /\ items_db' = r.db
            /\ resp' = Response("update_item", item_id, body, r)
    /\ UNCHANGED <<app, next_id, tasks_db, next_task_id, table, id_seq, now,
                   issued, issued_tasks, deleted>>

DeleteItem ==
    /\ UNCHANGED aux
    /\ app \in InMemory
    /\ \E item_id \in ItemIds :
         LET r == IF app = "_main" THEN main_delete_item(items_db, item_id)
                                   ELSE delete_item(items_db, item_id)
         IN /\ items_db' = r.db
            /\ resp' = Response("delete_item", item_id, <<>>, r)
            /\ deleted' = IF r.status # 404 THEN deleted \cup {item_id} ELSE deleted
    /\ UNCHANGED <<app, next_id, tasks_db, next_task_id, table, id_seq, now,
                   issued, issued_tasks>>

ListTasks ==
    /\ UNCHANGED aux
    /\ app = "_main"
    /\ resp' = Response("list_tasks", 0, <<>>, list_tasks(tasks_db))
    /\ UNCHANGED <<app, items_db, next_id, tasks_db, next_task_id, table, id_seq,
                   now, issued, issued_tasks, deleted>>

GetTask ==
    /\ UNCHANGED aux
    /\ app = "_main"
    /\ \E task_id \in TaskIds :
         resp' = Response("get_task", task_id, <<>>, get_task(tasks_db, task_id))
    /\ UNCHANGED <<app, items_db, next_id, tasks_db, next_task_id, table, id_seq,
                   now, issued, issued_tasks, deleted>>

CreateTask ==
    /\ UNCHANGED aux
    /\ app = "_main"
    /\ next_task_id <= MaxTaskId
    /\ \E body \in TaskBodies :
         LET r == create_task(tasks_db, next_task_id, body)
         IN /\ tasks_db' = r.db
            /\ next_task_id' = r.next_id
            /\ resp' = Response("create_task", 0, body, r)
            /\ issued_tasks' = Append(issued_tasks, r.body[1].id)
    /\ UNCHANGED <<app, items_db, next_id, table, id_seq, now, issued, deleted>>

Search ==
    /\ UNCHANGED aux
    /\ app = "_main"
    /\ \E query \in Queries, min_price \in MinPrices, max_price \in MaxPrices,
          status \in StatusFilters :
         resp' = Response("search", 0, <<>>,
                   search_items_and_tasks(items_db, tasks_db, query, min_price,
                                          max_price, status))
    /\ UNCHANGED <<app, items_db, next_id, tasks_db, next_task_id, table, id_seq,
                   now, issued, issued_tasks, deleted>>

DbCreateTask ==
    /\ UNCHANGED aux
    /\ app = "task_api"
    /\ id_seq < MaxRowId
    /\ \E body \in TaskCreateBodies :
         LET r == db_create_task(table, id_seq, body, now)
         IN /\ table' = r.db
            /\ id_seq' = r.seq
            /\ resp' = Response("create_task", 0, body, r)
            /\ issued' = Append(issued, Val(r.body[1].id))
    /\ UNCHANGED <<app, items_db, next_id, tasks_db, next_task_id, now,
                   issued_tasks, deleted>>

DbListTasks ==
    /\ UNCHANGED aux
    /\ app = "task_api"
    /\ resp' = Response("list_tasks", 0, <<>>, db_list_tasks(table))
    /\ UNCHANGED <<app, items_db, next_id, tasks_db, next_task_id, table, id_seq,
                   now, issued, issued_tasks, deleted>>

DbGetTask ==
    /\ UNCHANGED aux
    /\ app = "task_api"
    /\ \E task_id \in RowIds :
         resp' = Response("get_task", task_id, <<>>, db_get_task(table, task_id))
    /\ UNCHANGED <<app, items_db, next_id, tasks_db, next_task_id, table, id_seq,
                   now, issued, issued_tasks, deleted>>

DbUpdateTask ==
    /\ UNCHANGED aux
    /\ app = "task_api"
    /\ \E task_id \in RowIds, body \in TaskUpdateBodies, moved \in BOOLEAN :
         LET r == db_update_task(table, task_id, body, moved)
         IN /\ table' = r.db
            /\ resp' = Response("update_task", task_id, body, r)
    /\ UNCHANGED <<app, items_db, next_id, tasks_db, next_task_id, id_seq, now,
                   issued, issued_tasks, deleted>>

DbDeleteTask ==
    /\ UNCHANGED aux
    /\ app = "task_api"
    /\ \E task_id \in RowIds :
         LET r == db_delete_task(table, task_id)
         IN /\ table' = r.db
            /\ resp' = Response("delete_task", task_id, <<>>, r)
            /\ deleted' = IF r.status # 404 THEN deleted \cup {task_id} ELSE deleted
    /\ UNCHANGED <<app, items_db, next_id, tasks_db, next_task_id, id_seq, now,
                   issued, issued_tasks>>

RouterCreateItem ==
    /\ UNCHANGED aux
    /\ app = "crud_postgres"
    /\ id_seq < MaxRowId
    /\ \E body \in ItemCreateBodies :
         LET r == router_create_item(table, id_seq, body, now)
         IN /\ table' = r.db
            /\ id_seq' = r.seq
            /\ resp' = Response("create_item", 0, body, r)
            /\ issued' = Append(issued, Val(r.body[1].id))
    /\ UNCHANGED <<app, items_db, next_id, tasks_db, next_task_id, now,
                   issued_tasks, deleted>>

RouterListItems ==
    /\ UNCHANGED aux
    /\ app = "crud_postgres"
    /\ \E skip \in Skips, limit \in Limits :
         resp' = Response("list_items", 0, <<>>, router_list_items(table, skip, limit))
    /\ UNCHANGED <<app, items_db, next_id, tasks_db, next_task_id, table, id_seq,
                   now, issued, issued_tasks, deleted>>

RouterCountItems ==
    /\ UNCHANGED aux
    /\ app = "crud_postgres"
    /\ resp' = Response("count_items", 0, <<>>, count_items(table))
    /\ UNCHANGED <<app, items_db, next_id, tasks_db, next_task_id, table, id_seq,
                   now, issued, issued_tasks, deleted>>

RouterGetItem ==
    /\ UNCHANGED aux
    /\ app = "crud_postgres"
    /\ \E item_id \in RowIds :
         resp' = Response("get_item", item_id, <<>>, router_get_item(table, item_id))
    /\ UNCHANGED <<app, items_db, next_id, tasks_db, next_task_id, table, id_seq,
                   now, issued, issued_tasks, deleted>>

RouterUpdateItem ==
    /\ UNCHANGED aux
    /\ app = "crud_postgres"
    /\ \E item_id \in RowIds, body \in ItemUpdateBodies, moved \in BOOLEAN :
         LET r == router_update_item(table, item_id, body, moved, now)
         IN /\ table' = r.db
            /\ resp' = Response("update_item", item_id, body, r)
    /\ UNCHANGED <<app, items_db, next_id, tasks_db, next_task_id, id_seq, now,
                   issued, issued_tasks, deleted>>

RouterDeleteItem ==
    /\ UNCHANGED aux
    /\ app = "crud_postgres"
    /\ \E item_id \in RowIds :
         LET r == router_delete_item(table, item_id)
         IN /\ table' = r.db
            /\ resp' = Response("delete_item", item_id, <<>>, r)
            /\ deleted' = IF r.status # 404 THEN deleted \cup {item_id} ELSE deleted
    /\ UNCHANGED <<app, items_db, next_id, tasks_db, next_task_id, id_seq, now,
                   issued, issued_tasks>>

\* time passes between two requests
Tick ==
    /\ UNCHANGED aux
    /\ app \notin InMemory
    /\ now < MaxTime
    /\ now' = now + 1
    /\ UNCHANGED <<app, items_db, next_id, tasks_db, next_task_id, table, id_seq,
                   resp, issued, issued_tasks, deleted>>

Next ==
    \/ ListItems
    \/ GetItem
    \/ CreateItem
    \/ UpdateItem
    \/ DeleteItem
    \/ ListTasks
    \/ GetTask
    \/ CreateTask
    \/ Search
    \/ DbCreateTask
    \/ DbListTasks
    \/ DbGetTask
    \/ DbUpdateTask
    \/ DbDeleteTask
    \/ RouterCreateItem
    \/ RouterListItems
    \/ RouterCountItems
    \/ RouterGetItem
    \/ RouterUpdateItem
    \/ RouterDeleteItem
    \/ Tick

Spec == Init /\ [][Next]_vars

----------------------------------------------------------------------------
(* _main.py served by the threadpool: create_item and create_task are plain *)
(* `def` handlers, so each request runs on a worker thread and the         *)
(* interpreter may switch threads between two statements.  next_id += 1 is *)
(* a load and a store; whether a switch can fall between them depends on   *)
(* the interpreter, so both the one-step and the two-step form are steps.  *)

MaxThreads == 2     \* concurrent create requests

Threads == 1..MaxThreads

IdleThread == [pc |-> "idle", kind |-> "none", body |-> <<>>, id |-> 0, tmp |-> 0,
               result |-> <<>>]

InitThreads ==
    /\ app = "_main"
    /\ items_db = <<>>
    /\ next_id = 1
    /\ tasks_db = <<>>
    /\ next_task_id = 1
    /\ table = <<>>
    /\ id_seq = 0
    /\ now = 0
    /\ resp = [op |-> "none", id |-> 0, req |-> <<>>, status |-> 0, body |-> <<>>]
    /\ issued = <<>>
    /\ issued_tasks = <<>>
    /\ deleted = {}
    /\ threads = [t \in Threads |-> IdleThread]
    /\ session = <<>>
    /\ routed = <<>>

ThreadFrame == <<app, table, id_seq, now, resp, issued, issued_tasks, deleted,
                 session, routed>>

\* a POST /items or POST /tasks request is handed to a worker
T_Start(t) ==
    /\ threads[t].pc = "idle"
    /\ \/ \E body \in ItemBodies :
            threads' = [threads EXCEPT ![t].pc = "read", ![t].kind = "item",
                                       ![t].body = body]
       \/ \E body \in TaskBodies :
            threads' = [threads EXCEPT ![t].pc = "read", ![t].kind = "task",
                                       ![t].body = body]
    /\ UNCHANGED <<items_db, next_id, tasks_db, next_task_id>>
    /\ UNCHANGED ThreadFrame

\* item_id = next_id / task_id = next_task_id
T_Read(t) ==
    /\ threads[t].pc = "read"
    /\ threads' = [threads EXCEPT ![t].pc = "store",
                     ![t].id = IF threads[t].kind = "item" THEN next_id
                                                           ELSE next_task_id]
    /\ UNCHANGED <<items_db, next_id, tasks_db, next_task_id>>
    /\ UNCHANGED ThreadFrame

\* items_db[item_id] = item.model_dump() / tasks_db[task_id] = task.model_dump()
T_Store(t) ==
    /\ threads[t].pc = "store"
    /\ IF threads[t].kind = "item"
       THEN /\ items_db' = DictSet(items_db, threads[t].id, Item(threads[t].body))
            /\ UNCHANGED tasks_db
       ELSE /\ tasks_db' = DictSet(tasks_db, threads[t].id, Task(threads[t].body))
            /\ UNCHANGED items_db
    /\ threads' = [threads EXCEPT ![t].pc = "inc"]
    /\ UNCHANGED <<next_id, next_task_id>>
    /\ UNCHANGED ThreadFrame

\* next_id += 1 / next_task_id += 1 without a thread switch inside
T_Inc(t) ==
    /\ threads[t].pc = "inc"
    /\ IF threads[t].kind = "item"
       THEN next_id' = next_id + 1 /\ UNCHANGED next_task_id
       ELSE next_task_id' = next_task_id + 1 /\ UNCHANGED next_id
    /\ threads' = [threads EXCEPT ![t].pc = "return"]
    /\ UNCHANGED <<items_db, tasks_db>>
    /\ UNCHANGED ThreadFrame

\* next_id += 1, first half: the counter is loaded
T_IncLoad(t) ==
    /\ threads[t].pc = "inc"
    /\ threads' = [threads EXCEPT ![t].pc = "inc_store",
                     ![t].tmp = IF threads[t].kind = "item" THEN next_id
                                                            ELSE next_task_id]
    /\ UNCHANGED <<items_db, next_id, tasks_db, next_task_id>>
    /\ UNCHANGED ThreadFrame

\* next_id += 1, second half: the loaded value plus one is stored
T_IncStore(t) ==
    /\ threads[t].pc = "inc_store"
    /\ IF threads[t].kind = "item"
       THEN next_id' = threads[t].tmp + 1 /\ UNCHANGED next_task_id
       ELSE next_task_id' = threads[t].tmp + 1 /\ UNCHANGED next_id
    /\ threads' = [threads EXCEPT ![t].pc = "return"]
    /\ UNCHANGED <<items_db, tasks_db>>
    /\ UNCHANGED ThreadFrame

\* return {"id": item_id, **items_db[item_id]}
T_Return(t) ==
    /\ threads[t].pc = "return"
    /\ threads' = [threads EXCEPT ![t].pc = "done",
                     ![t].result =
                        IF threads[t].kind = "item"
                        THEN WithId(threads[t].id, DictGet(items_db, threads[t].id))
                        ELSE WithId(threads[t].id, DictGet(tasks_db, threads[t].id))]
    /\ UNCHANGED <<items_db, next_id, tasks_db, next_task_id>>
    /\ UNCHANGED ThreadFrame

ThreadStart == \E t \in Threads : T_Start(t)
ThreadRead == \E t \in Threads : T_Read(t)
ThreadStore == \E t \in Threads : T_Store(t)
ThreadInc == \E t \in Threads : T_Inc(t)
ThreadIncLoad == \E t \in Threads : T_IncLoad(t)
ThreadIncStore == \E t \in Threads : T_IncStore(t)
ThreadReturn == \E t \in Threads : T_Return(t)

NextThreads ==
    \/ ThreadStart
    \/ ThreadRead
    \/ ThreadStore
    \/ ThreadInc
    \/ ThreadIncLoad
    \/ ThreadIncStore
    \/ ThreadReturn

SpecThreads == InitThreads /\ [][NextThreads]_vars

----------------------------------------------------------------------------
(* crud-postgres/app/database.py: get_db around one request.  The handler  *)
(* works in the session's transaction (txn); the table changes when the    *)
(* commit succeeds.  log lists the session calls get_db and the context    *)
(* manager make, in order.                                                 *)

NoSession == [pc |-> "idle", state |-> "none", handler |-> "none", txn |-> <<>>,
              commit |-> "none", rollback |-> "none", exc |-> "none", log |-> <<>>]

InitSession ==
    /\ app = "crud_postgres"
    /\ items_db = <<>>
    /\ next_id = 1
    /\ tasks_db = <<>>
    /\ next_task_id = 1
    /\ table = <<>>
    /\ id_seq = 0
    /\ now = 0
    /\ resp = [op |-> "none", id |-> 0, req |-> <<>>, status |-> 0, body |-> <<>>]
    /\ issued = <<>>
    /\ issued_tasks = <<>>
    /\ deleted = {}
    /\ threads = <<>>
    /\ session = NoSession
    /\ routed = <<>>

SessionFrame == <<app, items_db, next_id, tasks_db, next_task_id, now, resp, issued,
                  issued_tasks, deleted, threads, routed>>

\* what a handler's answer is to the generator suspended at `yield session`:
\* HTTPException(404) and the IntegrityError of a flush are thrown into it
HandlerOutcome(r) ==
    CASE r.status = 404 -> "HTTPException"
      [] r.status = 500 -> "IntegrityError"
      [] OTHER -> "returned"

\* mutant: no except clause, an exception goes straight to finally
get_db_resume_noexcept(outcome) ==
    IF outcome = "returned" THEN "commit" ELSE "close"

\* where get_db continues after the yield: the statement after it, the
\* except Exception clause, or (CancelledError is a BaseException) finally
get_db_resume(outcome) ==
    CASE outcome = "returned" -> "commit"
      [] outcome \in {"HTTPException", "IntegrityError"} -> "rollback"
      [] OTHER -> "close"

\* async with async_session_maker() as session: ... yield session
S_Enter ==
    /\ session.pc \in {"idle", "done"}
    /\ session' = [NoSession EXCEPT !.pc = "yield", !.state = "open", !.txn = table]
    /\ UNCHANGED <<table, id_seq>>
    /\ UNCHANGED SessionFrame

\* the path operation runs with the session and returns or raises
S_Handler ==
    /\ session.pc = "yield"
    /\ \E r \in
            {router_create_item(session.txn, id_seq, b, now) :
                b \in IF id_seq < MaxRowId THEN ItemCreateBodies ELSE {}}
            \cup {router_get_item(session.txn, i) @@ [seq |-> id_seq] : i \in RowIds}
            \cup {router_update_item(session.txn, i, b, m, now) @@ [seq |-> id_seq] :
                    i \in RowIds, b \in ItemUpdateBodies, m \in BOOLEAN}
            \cup {router_delete_item(session.txn, i) @@ [seq |-> id_seq] : i \in RowIds} :
         /\ session' = [session EXCEPT !.pc = get_db_resume(HandlerOutcome(r)),
                                       !.handler = HandlerOutcome(r),
                                       !.txn = r.db,
                                       !.exc = IF HandlerOutcome(r) = "returned"
                                               THEN "none" ELSE HandlerOutcome(r)]
         /\ id_seq' = r.seq
    /\ UNCHANGED table
    /\ UNCHANGED SessionFrame

\* the request is cancelled while the path operation runs
S_Cancelled ==
    /\ session.pc = "yield"
    /\ session' = [session EXCEPT !.pc = get_db_resume("CancelledError"),
                                  !.handler = "CancelledError",
                                  !.exc = "CancelledError"]
    /\ UNCHANGED <<table, id_seq>>
    /\ UNCHANGED SessionFrame

\* await session.commit() succeeds
S_Commit ==
    /\ session.pc = "commit"
    /\ session' = [session EXCEPT !.pc = "close", !.commit = "ok",
                                  !.log = Append(@, "commit")]
    /\ table' = session.txn
    /\ UNCHANGED id_seq
    /\ UNCHANGED SessionFrame

\* await session.commit() raises
S_CommitFails ==
    /\ session.pc = "commit"
    /\ session' = [session EXCEPT !.pc = "rollback", !.commit = "failed",
                                  !.exc = "CommitError",
                                  !.log = Append(@, "commit")]
    /\ UNCHANGED <<table, id_seq>>
    /\ UNCHANGED SessionFrame

\* except Exception: await session.rollback(); raise
S_Rollback ==
    /\ session.pc = "rollback"
    /\ session' = [session EXCEPT !.pc = "close", !.rollback = "ok",
                                  !.txn = table,
                                  !.log = Append(@, "rollback")]
    /\ UNCHANGED <<table, id_seq>>
    /\ UNCHANGED SessionFrame

\* await session.rollback() raises: its exception replaces the first one
S_RollbackFails ==
    /\ session.pc = "rollback"
    /\ session' = [session EXCEPT !.pc = "close", !.rollback = "failed",
                                  !.exc = "RollbackError",
                                  !.log = Append(@, "rollback")]
    /\ UNCHANGED <<table, id_seq>>
    /\ UNCHANGED SessionFrame

\* finally: await session.close()
S_Close ==
    /\ session.pc = "close"
    /\ session' = [session EXCEPT !.pc = "exit", !.state = "closed",
                                  !.log = Append(@, "close")]
    /\ UNCHANGED <<table, id_seq>>
    /\ UNCHANGED SessionFrame

\* leaving the async with block: AsyncSession.__aexit__ closes the session,
\* and the pending exception, if any, reaches the caller
S_Exit ==
    /\ session.pc = "exit"
    /\ session' = [session EXCEPT !.pc = "done", !.state = "closed",
                                  !.log = Append(@, "close")]
    /\ UNCHANGED <<table, id_seq>>
    /\ UNCHANGED SessionFrame

NextSession ==
    \/ S_Enter
    \/ S_Handler
    \/ S_Cancelled
    \/ S_Commit
    \/ S_CommitFails
    \/ S_Rollback
    \/ S_RollbackFails
    \/ S_Close
    \/ S_Exit

\* the event loop runs a started request to its end
SpecSession == InitSession /\ [][NextSession]_vars /\ WF_vars(NextSession)

----------------------------------------------------------------------------
(* Routing: fastapi-hello-world/main.py registers its path operations on   *)
(* app, crud-postgres registers them on router (prefix /items); a request  *)
(* goes to the first route, in declaration order, whose path and method    *)
(* match.  A path is the sequence of its segments.                         *)

Lit(s) == [kind |-> "lit", name |-> s]
Param(n) == [kind |-> "param", name |-> n]
Route(method, path, endpoint) == [method |-> method, path |-> path, endpoint |-> endpoint]

\* @app.post / @app.get / @app.put / @app.delete, top to bottom
AppRoutes ==
    <<Route("POST", <<Lit("tasks")>>, "create_task"),
      Route("GET", <<Lit("tasks")>>, "list_tasks"),
      Route("GET", <<Lit("tasks"), Param("task_id")>>, "get_task"),
      Route("PUT", <<Lit("tasks"), Param("task_id")>>, "update_task"),
      Route("DELETE", <<Lit("tasks"), Param("task_id")>>, "delete_task"),
      Route("GET", <<Lit("tasks"), Lit("by-status"), Param("status")>>, "filter_by_status"),
      Route("GET", <<Lit("tasks"), Lit("recent")>>, "recent_tasks"),
      Route("GET", <<Lit("tasks"), Lit("search")>>, "search_tasks")>>

\* @router.post("/") ... of APIRouter(prefix="/items"), top to bottom
RouterRoutes ==
    <<Route("POST", <<Lit("items"), Lit("")>>, "create_item"),
      Route("GET", <<Lit("items"), Lit("")>>, "list_items"),
      Route("GET", <<Lit("items"), Lit("count")>>, "count_items"),
      Route("GET", <<Lit("items"), Param("item_id")>>, "get_item"),
      Route("PUT", <<Lit("items"), Param("item_id")>>, "update_item"),
      Route("DELETE", <<Lit("items"), Param("item_id")>>, "delete_item")>>

\* the path regex of a route: a literal segment matches itself, a parameter
\* matches any non-empty segment ([^/]+)
PathMatches(route, path) ==
    /\ Len(route.path) = Len(path)
    /\ \A i \in 1..Len(path) :
          IF route.path[i].kind = "lit"
          THEN path[i] = route.path[i].name
          ELSE path[i] # ""

First(S) == CHOOSE i \in S : \A j \in S : i <= j

\* the endpoint of the first route that matches path and method; a path
\* that matches only with another method is answered 405, no match 404
Dispatch(routes, method, path) ==
    LET full == {i \in 1..Len(routes) :
                    PathMatches(routes[i], path) /\ routes[i].method = method}
        partial == {i \in 1..Len(routes) : PathMatches(routes[i], path)}
    IN IF full # {} THEN routes[First(full)].endpoint
       ELSE IF partial # {} THEN "method_not_allowed"
       ELSE "not_found"

\* task_id: int / item_id: int read from a path segment
IdSegments == {ToString(i) : i \in RowIds}
ParseInt(s) ==
    IF \E i \in RowIds : ToString(i) = s
    THEN Some(CHOOSE i \in RowIds : ToString(i) = s)
    ELSE None

\* request validation error
Unprocessable(tbl) == [status |-> 422, body |-> <<>>, db |-> tbl]

QueryGet(query, key, default) == IF key \in DOMAIN query THEN query[key] ELSE default

\* select(TaskDB).where(TaskDB.status == status)
filter_by_status(tbl, status) ==
    LET keep(task) == task.status = Some(status)
    IN [status |-> 200, body |-> SelectSeq(tbl, keep), db |-> tbl]

\* select(TaskDB).where(TaskDB.created_at >= cutoff_date); one tick of the
\* clock is a day
recent_tasks(tbl, days, t) ==
    IF days < 1 \/ days > 365
    THEN Unprocessable(tbl)
    ELSE LET cutoff_date == t - days
             keep(task) == Val(task.created_at) >= cutoff_date
         IN [status |-> 200, body |-> SelectSeq(tbl, keep), db |-> tbl]

\* the filters given and truthy, combined
search_tasks(tbl, status, title_contains, days, t) ==
    LET by_status(task) == (~IsNone(status) /\ Val(status) # "") => task.status = status
        by_title(task) == (~IsNone(title_contains) /\ Val(title_contains) # "") =>
                              StrIn(Val(title_contains), Val(task.title))
        by_days(task) == (~IsNone(days) /\ Val(days) # 0) =>
                              Val(task.created_at) >= t - Val(days)
        keep(task) == by_status(task) /\ by_title(task) /\ by_days(task)
    IN IF ~IsNone(days) /\ (Val(days) < 1 \/ Val(days) > 365)
       THEN Unprocessable(tbl)
       ELSE [status |-> 200, body |-> SelectSeq(tbl, keep), db |-> tbl]

\* the endpoint called with the request's path parameters, query and body
CallTaskEndpoint(endpoint, tbl, seq, req, moved, t) ==
    LET task_id == ParseInt(req.path[2])
    IN CASE endpoint = "create_task" -> db_create_task(tbl, seq, req.body, t)
         [] endpoint = "list_tasks" -> db_list_tasks(tbl)
         [] endpoint = "get_task" ->
                IF IsNone(task_id) THEN Unprocessable(tbl)
                ELSE db_get_task(tbl, Val(task_id))
         [] endpoint = "update_task" ->
                IF IsNone(task_id) THEN Unprocessable(tbl)
                ELSE db_update_task(tbl, Val(task_id), req.body, moved)
         [] endpoint = "delete_task" ->
                IF IsNone(task_id) THEN Unprocessable(tbl)
                ELSE db_delete_task(tbl, Val(task_id))
         [] endpoint = "filter_by_status" -> filter_by_status(tbl, req.path[3])
         [] endpoint = "recent_tasks" ->
                recent_tasks(tbl, QueryGet(req.query, "days", 7), t)
         [] endpoint = "search_tasks" ->
                search_tasks(tbl, QueryGet(req.query, "status", None),
                             QueryGet(req.query, "title_contains", None),
                             QueryGet(req.query, "days", None), t)
         [] endpoint = "method_not_allowed" -> HTTPException(405, tbl)
         [] OTHER -> HTTPException(404, tbl)

CallItemEndpoint(endpoint, tbl, seq, req, moved, t) ==
    LET item_id == ParseInt(req.path[2])
    IN CASE endpoint = "create_item" -> router_create_item(tbl, seq, req.body, t)
         [] endpoint = "list_items" ->
                router_list_items(tbl, QueryGet(req.query, "skip", 0),
                                  QueryGet(req.query, "limit", 10))
         [] endpoint = "count_items" -> count_items(tbl)
         [] endpoint = "get_item" ->
                IF IsNone(item_id) THEN Unprocessable(tbl)
                ELSE router_get_item(tbl, Val(item_id))
         [] endpoint = "update_item" ->
                IF IsNone(item_id) THEN Unprocessable(tbl)
                ELSE router_update_item(tbl, Val(item_id), req.body, moved, t)
         [] endpoint = "delete_item" ->
                IF IsNone(item_id) THEN Unprocessable(tbl)
                ELSE router_delete_item(tbl, Val(item_id))
         [] endpoint = "method_not_allowed" -> HTTPException(405, tbl)
         [] OTHER -> HTTPException(404, tbl)

Request(method, path, query, body) ==
    [method |-> method, path |-> path, query |-> query, body |-> body]

TaskRequests(seq) ==
    {Request("POST", <<"tasks">>, <<>>, b) :
        b \in IF seq < MaxRowId THEN TaskCreateBodies ELSE {}}
    \cup {Request("GET", <<"tasks">>, <<>>, <<>>)}
    \cup {Request("GET", <<"tasks", s>>, <<>>, <<>>) : s \in IdSegments \cup {"recent"}}
    \cup {Request("GET", <<"tasks", "search">>, q, <<>>) :
            q \in {<<>>, [status |-> Some("done")]}}
    \cup {Request("GET", <<"tasks", "by-status", "done">>, <<>>, <<>>)}
    \cup {Request("PUT", <<"tasks", s>>, <<>>, b) : s \in IdSegments, b \in TaskUpdateBodies}
    \cup {Request("DELETE", <<"tasks", s>>, <<>>, <<>>) : s \in IdSegments \cup {"recent"}}

ItemRequests(seq) ==
    {Request("POST", <<"items", "">>, <<>>, b) :
        b \in IF seq < MaxRowId THEN ItemCreateBodies ELSE {}}
    \cup {Request("GET", <<"items", "">>, q, <<>>) : q \in {<<>>, [skip |-> 1, limit |-> 1]}}
    \cup {Request("GET", <<"items", s>>, <<>>, <<>>) : s \in IdSegments \cup {"count"}}
    \cup {Request("PUT", <<"items", s>>, <<>>, b) : s \in IdSegments, b \in ItemUpdateBodies}
    \cup {Request("DELETE", <<"items", s>>, <<>>, <<>>) : s \in IdSegments \cup {"count"}}

InitRoute ==
    /\ app \in {"task_api", "crud_postgres"}
    /\ items_db = <<>>
    /\ next_id = 1
    /\ tasks_db = <<>>
    /\ next_task_id = 1
    /\ table = <<>>
    /\ id_seq = 0
    /\ now = 0
    /\ resp = [op |-> "none", id |-> 0, req |-> <<>>, status |-> 0, body |-> <<>>]
    /\ issued = <<>>
    /\ issued_tasks = <<>>
    /\ deleted = {}
    /\ threads = <<>>
    /\ session = <<>>
    /\ routed = <<>>

RouteFrame == <<app, items_db, next_id, tasks_db, next_task_id, now, resp, issued,
                issued_tasks, deleted, threads, session>>

Routed(req, endpoint, r) ==
    [method |-> req.method, path |-> req.path, endpoint |-> endpoint, status |-> r.status]

\* a request to the Task API
RouteTask ==
    /\ app = "task_api"
    /\ \E req \in TaskRequests(id_seq), moved \in BOOLEAN :
         LET endpoint == Dispatch(AppRoutes, req.method, req.path)
             r == CallTaskEndpoint(endpoint, table, id_seq, req, moved, now)
                    @@ [seq |-> id_seq]
         IN /\ table' = r.db
            /\ id_seq' = r.seq
            /\ routed' = Routed(req, endpoint, r)
    /\ UNCHANGED RouteFrame

\* a request to the items router
RouteItem ==
    /\ app = "crud_postgres"
    /\ \E req \in ItemRequests(id_seq), moved \in BOOLEAN :
         LET endpoint == Dispatch(RouterRoutes, req.method, req.path)
             r == CallItemEndpoint(endpoint, table, id_seq, req, moved, now)
                    @@ [seq |-> id_seq]
         IN /\ table' = r.db
            /\ id_seq' = r.seq
            /\ routed' = Routed(req, endpoint, r)
    /\ UNCHANGED RouteFrame

NextRoute ==
    \/ RouteTask
    \/ RouteItem
    \/ Tick

SpecRoute == InitRoute /\ [][NextRoute]_vars

----------------------------------------------------------------------------
(* Views of the running application's store, used by the properties *)

ORM == {"task_api", "crud_postgres"}

\* the ids held by the store of items (in-memory) or rows (ORM)
StoreIds(a, idb, tbl) ==
    IF a \in InMemory THEN DictKeys(idb) ELSE {Val(tbl[i].id) : i \in 1..Len(tbl)}

\* GET <collection>/{id} of application a on a store
Get(a, idb, tbl, id) ==
    CASE a \in InMemory -> get_item(idb, id)
      [] a = "task_api" -> db_get_task(tbl, id)
      [] a = "crud_postgres" -> router_get_item(tbl, id)

\* DELETE <collection>/{id}
Delete(a, idb, tbl, id) ==
    CASE a = "hello_world" -> delete_item(idb, id)
      [] a = "_main" -> main_delete_item(idb, id)
      [] a = "task_api" -> db_delete_task(tbl, id)
      [] a = "crud_postgres" -> router_delete_item(tbl, id)

\* the statuses PUT <collection>/{id} can answer with
UpdateStatuses(a, idb, tbl, id) ==
    CASE a \in InMemory -> {update_item(idb, id, b).status : b \in ItemBodies}
      [] a = "task_api" ->
            {db_update_task(tbl, id, b, m).status : b \in TaskUpdateBodies, m \in BOOLEAN}
      [] a = "crud_postgres" ->
            {router_update_item(tbl, id, b, m, now).status :
                b \in ItemUpdateBodies, m \in BOOLEAN}

AllIds == ItemIds \cup RowIds
CreateOps == {"create_item", "create_task"}
UpdateOps == {"update_item", "update_task"}
DeleteOps == {"delete_item", "delete_task"}

\* the step serves a request (the only other step, Tick, moves the clock)
Served(op) == now' = now /\ resp'.op = op
ServedIn(ops) == now' = now /\ resp'.op \in ops

StrictlyIncreasing(seq) == \A i, j \in 1..Len(seq) : i < j => seq[i] < seq[j]

----------------------------------------------------------------------------
(* Properties *)

\* C1: in the in-memory stores the ids returned by successive creates are
\* strictly increasing (hence pairwise distinct, none assigned twice, also
\* after a delete), and the counter is greater than every id ever assigned.
C1_IdsStrictlyIncreasing ==
    app \in InMemory =>
        /\ StrictlyIncreasing(issued)
        /\ \A i \in 1..Len(issued) : issued[i] < next_id
        /\ StrictlyIncreasing(issued_tasks)
        /\ \A i \in 1..Len(issued_tasks) : issued_tasks[i] < next_task_id

\* a create that follows a successful delete, with two ids issued
C1_Witness ==
    /\ app \in InMemory
    /\ resp.op = "create_item"
    /\ Len(issued) = 2
    /\ deleted # {}

\* C2 (as claimed): in the ORM variants an update of an existing id writes
\* every declared field the payload carries with the payload's value and
\* leaves the other fields (updated_at aside) at their previous value.
C2_UpdateWritesPayload ==
    [][(app \in ORM /\ ServedIn(UpdateOps) /\ RowIn(table, resp'.id)) =>
         LET old == table[RowPos(table, resp'.id)]
             declared == IF app = "task_api" THEN {"title", "description", "status"}
                                             ELSE {"name", "description", "price"}
             sent == DOMAIN resp'.req \cap declared
         IN /\ resp'.status = 200
            /\ RowIn(table', resp'.id)
            /\ LET new == table'[RowPos(table', resp'.id)]
               IN \A f \in DOMAIN old \ {"updated_at"} :
                     new[f] = IF f \in sent THEN resp'.req[f] ELSE old[f]]_vars

C4_DeletedStaysGone ==
    \A id \in deleted :
        /\ Get(app, items_db, table, id).status = 404
        /\ Delete(app, items_db, table, id).status = 404
        /\ UpdateStatuses(app, items_db, table, id) = {404}

\* a create succeeded after a delete had, and the store is not empty
C4_Witness ==
    /\ deleted # {}
    /\ resp.op \in CreateOps
    /\ resp.status = 201
    /\ StoreIds(app, items_db, table) # {}

\* C5: create answers 201 with a record under an id that was never issued
\* before; get of that id returns the record create returned; and a record
\* that get returns is returned unchanged after every request that is not
\* an update or a delete of its id.
C5_CreateThenGet ==
    [][/\ (Served("create_item") \/ (Served("create_task") /\ app = "task_api")) =>
            /\ resp'.status = 201
            /\ LET id == IF app \in InMemory THEN resp'.body[1].id
                                             ELSE Val(resp'.body[1].id)
               IN /\ id \notin StoreIds(app, items_db, table)
                  /\ \A i \in 1..Len(issued) : issued[i] # id
                  /\ Get(app, items_db', table', id).status = 200
                  /\ Get(app, items_db', table', id).body = resp'.body
       /\ (Served("create_task") /\ app = "_main") =>
            /\ resp'.status = 201
            /\ ~KeyIn(tasks_db, resp'.body[1].id)
            /\ \A i \in 1..Len(issued_tasks) : issued_tasks[i] # resp'.body[1].id
            /\ get_task(tasks_db', resp'.body[1].id).status = 200
            /\ get_task(tasks_db', resp'.body[1].id).body = resp'.body
       /\ \A id \in StoreIds(app, items_db, table) :
            ~(ServedIn(UpdateOps \cup DeleteOps) /\ resp'.id = id) =>
                Get(app, items_db', table', id).body = Get(app, items_db, table, id).body
       /\ \A id \in DictKeys(tasks_db) :
            get_task(tasks_db', id).body = get_task(tasks_db, id).body]_vars

\* a second record was created and another id was then updated or deleted
C5_Witness ==
    /\ Len(issued) = 2
    /\ resp.op \in UpdateOps \cup DeleteOps
    /\ resp.status \in {200, 204}
    /\ \E id \in StoreIds(app, items_db, table) : id # resp.id

\* the rows of tbl in the order in which their ids were issued
RECURSIVE InInsertionOrder(_, _)
InInsertionOrder(ids, tbl) ==
    IF ids = <<>>
    THEN <<>>
    ELSE (IF RowIn(tbl, Head(ids)) THEN <<tbl[RowPos(tbl, Head(ids))]>> ELSE <<>>)
         \o InInsertionOrder(Tail(ids), tbl)

Min(a, b) == IF a < b THEN a ELSE b
Max(a, b) == IF a > b THEN a ELSE b

\* C6 (as claimed): list_items(skip, limit) over N rows returns exactly
\* min(limit, max(0, N - skip)) rows, those at positions skip+1 .. skip+limit
\* of the insertion order, in insertion order.
C6_ListInInsertionOrder ==
    app = "crud_postgres" =>
        \A skip \in Skips, limit \in Limits :
            LET rows == InInsertionOrder(issued, table)
                got == router_list_items(table, skip, limit).body
            IN /\ Len(got) = Min(limit, Max(0, Len(table) - skip))
               /\ got = SubSeq(rows, skip + 1, Min(Len(rows), skip + limit))

\* the id a served request addressed is not in the store it addresses
AbsentId ==
    IF app = "_main" /\ resp'.op = "get_task"
    THEN ~KeyIn(tasks_db, resp'.id)
    ELSE resp'.id \notin StoreIds(app, items_db, table)

ByIdOps == {"get_item", "get_task"} \cup UpdateOps \cup DeleteOps

\* C7: get, update and delete of an id that is not in the store answer 404,
\* and a request answered 404 leaves the records, their fields and the id
\* counters as they were.
C7_NotFoundChangesNothing ==
    [][/\ (ServedIn(ByIdOps) /\ AbsentId) => resp'.status = 404
       /\ (ServedIn(ByIdOps) /\ resp'.status = 404) =>
            /\ AbsentId
            /\ UNCHANGED <<items_db, next_id, tasks_db, next_task_id, table, id_seq>>]_vars

\* an update of an absent id was answered 404 by a store that holds a record
C7_Witness ==
    /\ resp.op \in UpdateOps
    /\ resp.status = 404
    /\ StoreIds(app, items_db, table) # {}

AllDescriptionsAreStrings ==
    \A i \in 1..Len(items_db) : ~IsNone(items_db[i].value.description)

\* what the claim says /search returns; status_given(s) says when the status
\* filter applies
SearchExpected(query, min_price, max_price, status, status_given(_)) ==
    LET Has(text) == StrIn(Lower(query), Lower(text))
        item_ok(e) ==
            /\ Has(e.value.name) \/ Has(Val(e.value.description))
            /\ IsNone(min_price) \/ Val(min_price) <= e.value.price
            /\ IsNone(max_price) \/ e.value.price <= Val(max_price)
        task_ok(e) ==
            /\ Has(e.value.title)
            /\ status_given(status) => e.value.status = Val(status)
        is == SelectSeq(items_db, item_ok)
        ts == SelectSeq(tasks_db, task_ok)
    IN [i \in 1..Len(is) |->
            [id |-> is[i].key, title |-> is[i].value.name, item_type |-> "item"]]
       \o [i \in 1..Len(ts) |->
            [id |-> ts[i].key, title |-> ts[i].value.title, item_type |-> "task"]]

\* C8 (as claimed): over a store whose items all have a string description,
\* /search returns the matching items within the price bounds and then the
\* matching tasks whose status equals the status parameter whenever the
\* request carries one.
C8_SearchResult ==
    (app = "_main" /\ AllDescriptionsAreStrings) =>
        \A query \in Queries, min_price \in MinPrices, max_price \in MaxPrices,
           status \in StatusFilters :
            LET r == search_items_and_tasks(items_db, tasks_db, query, min_price,
                                            max_price, status)
            IN /\ r.status = 200
               /\ r.body = SearchExpected(query, min_price, max_price, status,
                                          LAMBDA s : ~IsNone(s))

\* C8 (amended): the same, the status filter applying when the request
\* carries a non-empty status; an empty status string filters nothing.
C8_SearchResultNonEmptyStatus ==
    (app = "_main" /\ AllDescriptionsAreStrings) =>
        \A query \in Queries, min_price \in MinPrices, max_price \in MaxPrices,
           status \in StatusFilters :
            LET r == search_items_and_tasks(items_db, tasks_db, query, min_price,
                                            max_price, status)
            IN /\ r.status = 200
               /\ r.body = SearchExpected(query, min_price, max_price, status,
                                          LAMBDA s : ~IsNone(s) /\ Val(s) # "")

\* a search answered with an item and a task, over two items of different
\* prices and two tasks of different statuses
C8_Witness ==
    /\ app = "_main"
    /\ AllDescriptionsAreStrings
    /\ resp.op = "search"
    /\ resp.status = 200
    /\ \E i, j \in 1..Len(resp.body) :
          resp.body[i].item_type = "item" /\ resp.body[j].item_type = "task"
    /\ Len(items_db) = 2 /\ items_db[1].value.price # items_db[2].value.price
    /\ Len(tasks_db) = 2 /\ tasks_db[1].value.status # tasks_db[2].value.status
    /\ Len(resp.body) < 4

\* C9 (as claimed): /search always completes with a result sequence.
C9_SearchNeverFails ==
    resp.op = "search" => resp.status = 200

\* C10: no update changes an id: the store holds the same ids after it, each
\* record is still found under its id, an ORM row keeps its created_at, and
\* the tasks of _main.py are untouched.
C10_IdImmutable ==
    [][ServedIn(UpdateOps) =>
         /\ StoreIds(app, items_db', table') = StoreIds(app, items_db, table)
         /\ Len(items_db') = Len(items_db)
         /\ Len(table') = Len(table)
         /\ tasks_db' = tasks_db
         /\ \A id \in StoreIds(app, items_db, table) :
               LET old == Get(app, items_db, table, id).body[1]
                   new == Get(app, items_db', table', id).body[1]
               IN /\ new.id = old.id
                  /\ app \in InMemory => new.id = id
                  /\ app \in ORM => new.id = Some(id) /\ new.created_at = old.created_at
         /\ (resp'.status = 200 /\ app \in InMemory) => resp'.body[1].id = resp'.id
         /\ (resp'.status = 200 /\ app \in ORM) => resp'.body[1].id = Some(resp'.id)]_vars

\* a task created before the clock moved was updated by a request that
\* carries id and created_at keys naming other values
C10_Witness ==
    /\ app = "task_api"
    /\ resp.op = "update_task"
    /\ resp.status = 200
    /\ "id" \in DOMAIN resp.req
    /\ resp.req.id # Some(resp.id)
    /\ "created_at" \in DOMAIN resp.req
    /\ resp.body[1].created_at # resp.req.created_at

\* the creates of one kind that have returned
Returned(kind) == {t \in DOMAIN threads : threads[t].pc = "done" /\ threads[t].kind = kind}

\* C11 (as claimed): however the steps of concurrent creates interleave,
\* the creates return pairwise distinct ids, no stored record is overwritten
\* by another create, and the counter ends up advanced by the number of
\* creates.
C11_ConcurrentCreatesAtomic ==
    (\A t \in DOMAIN threads : threads[t].pc = "done") =>
        /\ \A t, u \in Returned("item") : t # u => threads[t].result.id # threads[u].result.id
        /\ \A t, u \in Returned("task") : t # u => threads[t].result.id # threads[u].result.id
        /\ \A t \in Returned("item") :
              KeyIn(items_db, threads[t].id)
              /\ DictGet(items_db, threads[t].id) = Item(threads[t].body)
        /\ \A t \in Returned("task") :
              KeyIn(tasks_db, threads[t].id)
              /\ DictGet(tasks_db, threads[t].id) = Task(threads[t].body)
        /\ next_id = 1 + Cardinality(Returned("item"))
        /\ next_task_id = 1 + Cardinality(Returned("task"))

Count(seq, x) == Cardinality({i \in 1..Len(seq) : seq[i] = x})
Before(seq, x, y) ==
    \E i \in 1..Len(seq) : seq[i] = x /\ \A j \in 1..Len(seq) : seq[j] = y => i < j

\* C12 (as claimed): when get_db has finished, the session was closed
\* exactly once; commit was attempted iff the handler returned; if the
\* handler or the commit raised, rollback came before close and that
\* exception reached the caller; nothing used the session after its close.
C12_ClosedExactlyOnce ==
    session.pc = "done" =>
        /\ Count(session.log, "close") = 1
        /\ Count(session.log, "commit") = (IF session.handler = "returned" THEN 1 ELSE 0)
        /\ (session.handler # "returned" \/ session.commit = "failed") =>
              /\ Before(session.log, "rollback", "close")
              /\ session.exc = IF session.commit = "failed" THEN "CommitError"
                                                            ELSE session.handler
        /\ \A i, j \in 1..Len(session.log) :
              (i < j /\ session.log[i] = "close") => FALSE

\* the safety part of the amended C12
C12_Safety ==
    /\ \A i, j \in 1..Len(session.log) :
          (i < j /\ session.log[i] = "close") => session.log[j] = "close"
    /\ (session.state = "closed") = (Count(session.log, "close") > 0)
    /\ session.pc = "done" =>
          /\ Count(session.log, "close") = 2
          /\ Count(session.log, "commit") = (IF session.handler = "returned" THEN 1 ELSE 0)
          /\ (session.handler \in {"HTTPException", "IntegrityError"}
                \/ session.commit = "failed") =>
                /\ Count(session.log, "rollback") = 1
                /\ Before(session.log, "rollback", "close")
                /\ session.exc # "none"
                /\ session.rollback = "ok" =>
                      session.exc = IF session.commit = "failed" THEN "CommitError"
                                                                 ELSE session.handler
          /\ session.handler = "CancelledError" =>
                Count(session.log, "rollback") = 0 /\ session.exc = "CancelledError"
          /\ (session.handler = "returned" /\ session.commit = "ok") =>
                session.exc = "none" /\ Count(session.log, "rollback") = 0

\* C12 (amended): a request's session is closed on every exit path: every
\* started request reaches the end of get_db, and by then close was called
\* twice, by the finally clause and by the exit of the async with block, the
\* second call on the closed session, with no commit or rollback after the
\* first; commit was attempted iff the handler returned; if the handler
\* raised an Exception or the commit failed, rollback was called once before
\* the closes and, unless the rollback failed itself, that exception reached
\* the caller; a cancelled handler (CancelledError) gets no rollback call.
C12_SessionReleased ==
    /\ []C12_Safety
    /\ (session.pc = "yield") ~> (session.pc = "done")

\* a request whose commit failed has been rolled back and closed
C12_Witness ==
    /\ session.pc = "done"
    /\ session.commit = "failed"
    /\ session.log = <<"commit", "rollback", "close", "close">>
    /\ session.exc = "CommitError"
    /\ Len(table) > 0

\* C13 (as claimed): a GET of a literal path is answered by the handler
\* declared for that path: /tasks/recent by recent_tasks, /tasks/search by
\* search_tasks, /items/count by count_items.
C13_LiteralPathsReachable ==
    (DOMAIN routed # {} /\ routed.method = "GET") =>
        /\ routed.path = <<"tasks", "recent">> => routed.endpoint = "recent_tasks"
        /\ routed.path = <<"tasks", "search">> => routed.endpoint = "search_tasks"
        /\ routed.path = <<"items", "count">> => routed.endpoint = "count_items"

\* C14 (as claimed): in the ORM variants every update of an existing id
\* with a payload the update schema accepts (an explicit null included)
\* succeeds and returns the updated record, and the required fields (title
\* and status of a task, name and price of an item) of the stored records
\* are non-null afterwards.
C14_AcceptedUpdateSucceeds ==
    [][(app \in ORM /\ ServedIn(UpdateOps) /\ RowIn(table, resp'.id)) =>
         LET required == IF app = "task_api" THEN {"title", "status"}
                                             ELSE {"name", "price"}
         IN /\ resp'.status = 200
            /\ RowIn(table', resp'.id)
            /\ resp'.body = <<table'[RowPos(table', resp'.id)]>>
            /\ \A i \in 1..Len(table') : \A f \in required : ~IsNone(table'[i][f])]_vars

====
